---------------------------- MODULE Spec2Model ----------------------------
(***************************************************************************)
(* Model of src/complete2.py: the Streamlit script that analyses a news   *)
(* article with one completion call, extracts and validates the JSON      *)
(* answer, scores its difficulty and keeps the result in the session.     *)
(*                                                                         *)
(* Python values are modelled as follows.                                  *)
(*   str        a sequence of one-character strings                        *)
(*   list/dict  [kind |-> "list" | "dict" | "num", items |-> <<elem...>>]  *)
(*              (a dict keeps its keys, in order, in items; "num" is a     *)
(*              non-zero JSON number: no len(), no slice, no iteration)    *)
(*   element    [kind |-> "str" | "num", chars |-> <<char...>>]            *)
(*   None       the empty sequence <<>>; a present object x is <<x>>       *)
(* Indices of find/rfind/slices are Python's (0-based, -1 = not found).    *)
(***************************************************************************)
EXTENDS Integers, Sequences, FiniteSets, TLC

VARIABLES
    analysis_data,    \* st.session_state.analysis_data: <<>> (None) or <<record>>
    current_url,      \* st.session_state.current_url
    url_input,        \* contents of the URL text field in the last run
    result,           \* raw text returned by chain.run
    json_str,         \* candidate JSON text cut out of result
    data,             \* json.loads(json_str): <<>> or <<decoded value>>
    messages,         \* st.warning / st.info / st.error / st.code calls of the last run
    run,              \* how the last script run ended
    exception,        \* exception that left the last script run uncaught ("" = none)
    sentences,        \* argument of calculate_difficulty (scorer specification)
    difficulty_level  \* value returned by calculate_difficulty (scorer specification)

vars == <<analysis_data, current_url, url_input, result, json_str, data, messages, run,
          exception, sentences, difficulty_level>>

---------------------------------------------------------------------------
(* Bounds of the model *)

MaxPieces == 5
MaxLen == 2
MaxTokens == 30
MaxLong == 5
MaxExtra == 1

---------------------------------------------------------------------------
(* Python str helpers *)

Whitespace == {" ", "\n", "\t"}

\* The backquote character (U+0060), which a TLA+ string cannot contain
Backquote == "BACKQUOTE"

FenceJson == <<Backquote, Backquote, Backquote, "j", "s", "o", "n">>
Fence == <<Backquote, Backquote, Backquote>>
FenceJsonLen == 7

Min(S) == CHOOSE x \in S : \A y \in S : x <= y
Max(S) == CHOOSE x \in S : \A y \in S : x >= y

\* sub in s[start:] at the lowest index, as str.find(sub, start)
Find(s, sub, start) ==
    LET cands == {i \in start..(Len(s) - Len(sub)) :
                     SubSeq(s, i + 1, i + Len(sub)) = sub}
    IN  IF cands = {} THEN -1 ELSE Min(cands)

\* str.rfind(sub)
RFind(s, sub) ==
    LET cands == {i \in 0..(Len(s) - Len(sub)) :
                     SubSeq(s, i + 1, i + Len(sub)) = sub}
    IN  IF cands = {} THEN -1 ELSE Max(cands)

\* the operator: sub in s
Contains(s, sub) == Find(s, sub, 0) # -1

\* a slice bound as Python normalises it
ClampIndex(i, n) ==
    IF i < 0 THEN (IF i + n < 0 THEN 0 ELSE i + n)
    ELSE IF i > n THEN n ELSE i

\* s[a:b]
PySlice(s, a, b) ==
    SubSeq(s, ClampIndex(a, Len(s)) + 1, ClampIndex(b, Len(s)))

\* s.strip()
Strip(s) ==
    LET keep == {i \in 1..Len(s) : s[i] \notin Whitespace}
    IN  IF keep = {} THEN <<>> ELSE SubSeq(s, Min(keep), Max(keep))

---------------------------------------------------------------------------
(* JSON extraction, lines 274-283 *)

\* extract_json with the brace rule tried before the fence rule
extract_json_brace_first(res) ==
    IF Contains(res, <<"{">>) /\ Contains(res, <<"}">>)
    THEN PySlice(res, Find(res, <<"{">>, 0), RFind(res, <<"}">>) + 1)
    ELSE IF Contains(res, FenceJson)
    THEN LET json_start == Find(res, FenceJson, 0) + FenceJsonLen
         IN  Strip(PySlice(res, json_start, Find(res, Fence, json_start)))
    ELSE res

\* extract_json whose brace rule stops at the first closing brace
extract_json_minimal(res) ==
    IF Contains(res, FenceJson)
    THEN LET json_start == Find(res, FenceJson, 0) + FenceJsonLen
         IN  Strip(PySlice(res, json_start, Find(res, Fence, json_start)))
    ELSE IF Contains(res, <<"{">>) /\ Contains(res, <<"}">>)
    THEN PySlice(res, Find(res, <<"{">>, 0), Find(res, <<"}">>, 0) + 1)
    ELSE res

extract_json(res) ==
    IF Contains(res, FenceJson)
    THEN LET json_start == Find(res, FenceJson, 0) + FenceJsonLen
             json_end == Find(res, Fence, json_start)
         IN  Strip(PySlice(res, json_start, json_end))
    ELSE IF Contains(res, <<"{">>) /\ Contains(res, <<"}">>)
    THEN LET json_start == Find(res, <<"{">>, 0)
             json_end == RFind(res, <<"}">>) + 1
         IN  PySlice(res, json_start, json_end)
    ELSE res

\* Pieces a raw response is put together from
Pieces == {FenceJson, Fence, <<"{">>, <<"}">>, <<" ">>, <<"x">>}

RECURSIVE Texts(_)
Texts(n) ==
    IF n = 0 THEN {<<>>}
    ELSE LET T == Texts(n - 1) IN T \cup {t \o p : t \in T, p \in Pieces}

RawTexts == Texts(MaxPieces)

NoList == [kind |-> "list", items |-> <<>>]

InitExtract ==
    /\ result \in RawTexts
    /\ json_str = <<>>
    /\ run = "none"
    /\ analysis_data = <<>>
    /\ current_url = ""
    /\ url_input = ""
    /\ data = <<>>
    /\ messages = <<>>
    /\ exception = ""
    /\ sentences = NoList
    /\ difficulty_level = ""

ExtractStep ==
    /\ run = "none"
    /\ json_str' = extract_json(result)
    /\ run' = "extracted"
    /\ UNCHANGED <<analysis_data, current_url, url_input, result, data,
                   messages, exception, sentences, difficulty_level>>

NextExtract == ExtractStep

SpecExtract == InitExtract /\ [][NextExtract]_vars

---------------------------------------------------------------------------
(* Difficulty scorer, lines 94-125 *)

Str(chars) == [kind |-> "str", chars |-> chars]
List(items) == [kind |-> "list", items |-> items]

\* str.split(): the maximal runs of non-whitespace characters, in order;
\* SplitFrom(s, i) is the list of the runs that start at position i or later
RECURSIVE SplitFrom(_, _)
SplitFrom(s, i) ==
    LET rest == {j \in i..Len(s) : s[j] \notin Whitespace}
    IN  IF rest = {} THEN <<>>
        ELSE LET first == Min(rest)
                 last == Min({j \in first..Len(s) :
                                 j = Len(s) \/ s[j + 1] \in Whitespace})
             IN  <<SubSeq(s, first, last)>> \o SplitFrom(s, last + 1)

Split(s) == SplitFrom(s, 1)

\* the count of line 105 with the threshold off by one
ComplexCountFrom7(words) == Cardinality({i \in 1..Len(words) : Len(words[i]) >= 7})

\* len([w for w in words if len(w) > 7])
ComplexCount(words) == Cardinality({i \in 1..Len(words) : Len(words[i]) > 7})

\* the loop of lines 102-105: <<total_words, complex_words>> after items[1..n]
RECURSIVE CountWords(_, _)
CountWords(items, n) ==
    IF n = 0 THEN <<0, 0>>
    ELSE LET before == CountWords(items, n - 1)
             words == Split(items[n].chars)
         IN  <<before[1] + Len(words), before[2] + ComplexCount(words)>>

\* lines 114-125 with the float comparisons written over the integers:
\* total / n < b  iff  total < b * n, and complex / total < p / 100  iff
\* 100 * complex < p * total (the quotients are correctly rounded doubles and
\* the literals are the doubles nearest p / 100, so the comparisons agree)
Band(total_words, complex_words, n) ==
    IF total_words < 10 * n /\ 100 * complex_words < 10 * total_words THEN "A1"
    ELSE IF total_words < 15 * n /\ 100 * complex_words < 15 * total_words THEN "A2"
    ELSE IF total_words < 20 * n /\ 100 * complex_words < 20 * total_words THEN "B1"
    ELSE IF total_words < 25 * n /\ 100 * complex_words < 25 * total_words THEN "B2"
    ELSE IF total_words < 30 * n /\ 100 * complex_words < 30 * total_words THEN "C1"
    ELSE "C2"

Levels == {"A1", "A2", "B1", "B2", "C1", "C2"}

\* The value returned, or the name of the exception raised: iterating a
\* number raises TypeError, and an element that is no str has no split()
calculate_difficulty(sents) ==
    IF sents.kind # "num" /\ sents.items = <<>> THEN "A1"
    ELSE IF sents.kind = "num" THEN "TypeError"
    ELSE IF \E i \in 1..Len(sents.items) : sents.items[i].kind # "str"
    THEN "AttributeError"
    ELSE LET counts == CountWords(sents.items, Len(sents.items))
             total_words == counts[1]
             complex_words == counts[2]
         IN  IF total_words = 0 THEN "A1"
             ELSE Band(total_words, complex_words, Len(sents.items))

\* Inputs of the scorer: a first sentence of n words, k of them of 8
\* characters and the others of 7, followed by up to MaxExtra short sentences
RECURSIVE Repeat(_, _)
Repeat(s, n) == IF n = 0 THEN <<>> ELSE s \o Repeat(s, n - 1)

ShortWord == Repeat(<<"a">>, 7)
LongWord == Repeat(<<"a">>, 8)

Sentence(n, k) ==
    LET long == IF k < n THEN k ELSE n
        body == Repeat(LongWord \o <<" ">>, long)
                  \o Repeat(ShortWord \o <<" ">>, n - long)
    IN  IF body = <<>> THEN body ELSE SubSeq(body, 1, Len(body) - 1)

Fillers == {<<>>, <<" ", "\t">>, <<" ", "a", "\n">>, LongWord}

RECURSIVE SeqsUpTo(_, _)
SeqsUpTo(S, n) ==
    IF n = 0 THEN {<<>>}
    ELSE LET T == SeqsUpTo(S, n - 1) IN T \cup {Append(t, x) : t \in T, x \in S}

ScorerInputs ==
    {List(<<>>)} \cup
    {List(<<Str(f)>> \o [i \in 1..Len(e) |-> Str(e[i])]) :
        f \in {Sentence(n, k) : n \in 0..MaxTokens, k \in 0..MaxLong},
        e \in SeqsUpTo(Fillers, MaxExtra)}

InitScorer ==
    /\ sentences \in ScorerInputs
    /\ difficulty_level = ""
    /\ run = "none"
    /\ analysis_data = <<>>
    /\ current_url = ""
    /\ url_input = ""
    /\ result = <<>>
    /\ json_str = <<>>
    /\ data = <<>>
    /\ messages = <<>>
    /\ exception = ""

ScoreStep ==
    /\ run = "none"
    /\ difficulty_level' = calculate_difficulty(sentences)
    /\ run' = "scored"
    /\ UNCHANGED <<analysis_data, current_url, url_input, result, json_str,
                   data, messages, exception, sentences>>

NextScorer == ScoreStep

SpecScorer == InitScorer /\ [][NextScorer]_vars

---------------------------------------------------------------------------
(* The analysis button handler, lines 227-336 *)

Msg(fn, about, counts) == [fn |-> fn, about |-> about, counts |-> counts]

\* the default of line 288, a Korean phrase meaning "no topic"
DefaultTopic == "no topic"

SequenceKeys == {"sentences", "translations", "words", "word_meanings", "word_sentences"}

\* A decoded JSON value: an object with the keys it holds, or anything else
Object(keys, topic, level, s, t, w, m, x) ==
    [kind |-> "object", keys |-> keys, topic |-> topic, difficulty_level |-> level,
     sentences |-> s, translations |-> t, words |-> w, word_meanings |-> m,
     word_sentences |-> x]

EmptyObject == Object({}, "", "", NoList, NoList, NoList, NoList, NoList)

NotAnObject == [EmptyObject EXCEPT !.kind = "other"]

\* json.loads(json_str), line 285, over the tokens of the model's responses:
\* "m" is the text of the members of an object (the object it denotes is
\* members), "v" the text of a JSON value that is no object, whitespace may
\* surround the tokens, and every other text is malformed
Decode(text, members) ==
    LET tokens == SelectSeq(text, LAMBDA c : c \notin Whitespace)
    IN  IF tokens = <<"{", "m", "}">> THEN [ok |-> TRUE, value |-> members]
        ELSE IF tokens = <<"{", "}">> THEN [ok |-> TRUE, value |-> EmptyObject]
        ELSE IF tokens = <<"v">> THEN [ok |-> TRUE, value |-> NotAnObject]
        ELSE [ok |-> FALSE, value |-> NotAnObject]

\* data.get(key, []), lines 289-293
GetField(d, key) == IF key \in d.keys THEN d[key] ELSE NoList

\* data.get("topic", ...), line 288
GetTopic(d) == IF "topic" \in d.keys THEN d.topic ELSE DefaultTopic

\* len(v) is defined
HasLen(v) == v.kind \in {"list", "dict"}

\* v[:n] is defined
Sliceable(v) == v.kind = "list"

\* v[:n] keeping the last n elements instead of the first
Suffix(v, n) ==
    [kind |-> "list", items |-> SubSeq(v.items, Len(v.items) - n + 1, Len(v.items))]

\* v[:n] of a list
Prefix(v, n) == [kind |-> "list", items |-> PySlice(v.items, 0, n)]

\* lines 296-305 testing only the first two lengths
ValidateVocabularyTwo(w, m, x) ==
    IF ~(HasLen(w) /\ HasLen(m) /\ HasLen(x))
    THEN [raised |-> TRUE, messages |-> <<>>, w |-> w, m |-> m, x |-> x]
    ELSE IF Len(w.items) # Len(m.items)
    THEN LET min_length == Min({Len(w.items), Len(m.items), Len(x.items)})
             warned == <<Msg("warning", "words",
                             <<Len(w.items), Len(m.items), Len(x.items)>>)>>
         IN  [raised |-> FALSE,
              messages |-> Append(warned, Msg("info", "words", <<min_length>>)),
              w |-> Prefix(w, min_length), m |-> Prefix(m, min_length),
              x |-> Prefix(x, min_length)]
    ELSE [raised |-> FALSE, messages |-> <<>>, w |-> w, m |-> m, x |-> x]

\* lines 296-305: the vocabulary group. A len() of a number raises before
\* the warning is shown; a slice of a dict raises after it
ValidateVocabulary(w, m, x) ==
    IF ~(HasLen(w) /\ HasLen(m) /\ HasLen(x))
    THEN [raised |-> TRUE, messages |-> <<>>, w |-> w, m |-> m, x |-> x]
    ELSE IF Len(w.items) # Len(m.items) \/ Len(w.items) # Len(x.items)
    THEN LET min_length == Min({Len(w.items), Len(m.items), Len(x.items)})
             warned == <<Msg("warning", "words",
                             <<Len(w.items), Len(m.items), Len(x.items)>>)>>
         IN  IF ~(Sliceable(w) /\ Sliceable(m) /\ Sliceable(x))
             THEN [raised |-> TRUE, messages |-> warned, w |-> w, m |-> m, x |-> x]
             ELSE [raised |-> FALSE,
                   messages |-> Append(warned, Msg("info", "words", <<min_length>>)),
                   w |-> Prefix(w, min_length), m |-> Prefix(m, min_length),
                   x |-> Prefix(x, min_length)]
    ELSE [raised |-> FALSE, messages |-> <<>>, w |-> w, m |-> m, x |-> x]

\* lines 307-315 cutting the sentences and leaving the translations
ValidateSentencesOnly(s, t) ==
    IF ~(HasLen(s) /\ HasLen(t))
    THEN [raised |-> TRUE, messages |-> <<>>, s |-> s, t |-> t]
    ELSE IF Len(s.items) # Len(t.items)
    THEN LET min_length == Min({Len(s.items), Len(t.items)})
             warned == <<Msg("warning", "sentences", <<Len(s.items), Len(t.items)>>)>>
         IN  IF ~Sliceable(s)
             THEN [raised |-> TRUE, messages |-> warned, s |-> s, t |-> t]
             ELSE [raised |-> FALSE,
                   messages |-> Append(warned, Msg("info", "sentences", <<min_length>>)),
                   s |-> Prefix(s, min_length), t |-> t]
    ELSE [raised |-> FALSE, messages |-> <<>>, s |-> s, t |-> t]

\* lines 307-315: the sentence group
ValidateSentences(s, t) ==
    IF ~(HasLen(s) /\ HasLen(t))
    THEN [raised |-> TRUE, messages |-> <<>>, s |-> s, t |-> t]
    ELSE IF Len(s.items) # Len(t.items)
    THEN LET min_length == Min({Len(s.items), Len(t.items)})
             warned == <<Msg("warning", "sentences", <<Len(s.items), Len(t.items)>>)>>
         IN  IF ~(Sliceable(s) /\ Sliceable(t))
             THEN [raised |-> TRUE, messages |-> warned, s |-> s, t |-> t]
             ELSE [raised |-> FALSE,
                   messages |-> Append(warned, Msg("info", "sentences", <<min_length>>)),
                   s |-> Prefix(s, min_length), t |-> Prefix(t, min_length)]
    ELSE [raised |-> FALSE, messages |-> <<>>, s |-> s, t |-> t]

\* the difficulty of the record read from the payload when it carries one,
\* and computed over the sentences as the model sent them otherwise
PayloadDifficulty(d, validated) ==
    IF "difficulty_level" \in d.keys THEN d.difficulty_level
    ELSE calculate_difficulty(GetField(d, "sentences"))

\* line 325: the difficulty of the record, over the validated sentences
RecordDifficulty(d, validated) == calculate_difficulty(validated)

\* the messages of an except branch, lines 329-336
ErrorMessages(name) ==
    <<Msg("error", name, <<>>), Msg("write", "", <<>>), Msg("code", "result", <<>>)>>

NoRecord ==
    [topic |-> "", sentences |-> NoList, translations |-> NoList, words |-> NoList,
     word_meanings |-> NoList, word_sentences |-> NoList, difficulty_level |-> ""]

\* the try block, lines 271-336, run on the raw response: what it leaves in
\* json_str and data, the messages it shows, and the record it builds
\* unless an exception reached an except branch first
TryBlock(res, members) ==
    LET text == extract_json(res)
        decoded == Decode(text, members)
        d == decoded.value
        voc == ValidateVocabulary(GetField(d, "words"), GetField(d, "word_meanings"),
                                  GetField(d, "word_sentences"))
        sen == ValidateSentences(GetField(d, "sentences"), GetField(d, "translations"))
        level == RecordDifficulty(d, sen.s)
        failed(dat, shown, name) ==
            [raised |-> TRUE, json_str |-> text, data |-> dat,
             messages |-> shown \o ErrorMessages(name), record |-> NoRecord]
    IN  IF ~decoded.ok THEN failed(<<>>, <<>>, "JSONDecodeError")
        ELSE IF d.kind # "object" THEN failed(<<d>>, <<>>, "Exception")
        ELSE IF voc.raised THEN failed(<<d>>, voc.messages, "Exception")
        ELSE IF sen.raised THEN failed(<<d>>, voc.messages \o sen.messages, "Exception")
        ELSE IF level \notin Levels
        THEN failed(<<d>>, voc.messages \o sen.messages, "Exception")
        ELSE [raised |-> FALSE, json_str |-> text, data |-> <<d>>,
              messages |-> voc.messages \o sen.messages,
              record |-> [topic |-> GetTopic(d),
                          sentences |-> sen.s,
                          translations |-> sen.t,
                          words |-> voc.w,
                          word_meanings |-> voc.m,
                          word_sentences |-> voc.x,
                          difficulty_level |-> level]]

\* the session record that drops the previous record when the run fails
ClearedOnFailure(prior, out) == IF out.raised THEN <<>> ELSE <<out.record>>

\* st.session_state.analysis_data after the try block: line 318 is reached
\* only when nothing raised before it
StoredData(prior, out) == IF out.raised THEN prior ELSE <<out.record>>

\* the session URL that is set before the response is processed
UrlSetFirst(prior, url, out) == url

\* st.session_state.current_url after the try block, line 327
StoredUrl(prior, url, out) == IF out.raised THEN prior ELSE url

---------------------------------------------------------------------------
(* Inputs of the session *)

Digits == <<"1", "2", "3", "4", "5", "6", "7", "8", "9">>

\* the i-th element of a list of the payload, recognisable by its position
Item(tag, i) == Str(<<tag, Digits[i]>>)

ItemList(tag, n) == List([i \in 1..n |-> Item(tag, i)])

\* sentences of different difficulty: one short word, one long word, two words
SentenceAt(i) ==
    IF i % 3 = 1 THEN Str(<<"a">>)
    ELSE IF i % 3 = 2 THEN Str(LongWord)
    ELSE Str(<<"a", " ", "a">>)

SentenceList(n) == List([i \in 1..n |-> SentenceAt(i)])

AllKeys == SequenceKeys \cup {"topic"}

\* the lengths <<sentences, translations, words, word_meanings,
\* word_sentences>> of the arrays of a payload: every combination within the
\* vocabulary group, every combination within the sentence group, and both
\* groups misaligned at once
Shapes ==
    {<<MaxLen, MaxLen, lw, lm, lx>> :
        lw \in 0..MaxLen, lm \in 0..MaxLen, lx \in 0..MaxLen}
      \cup {<<ls, lt, MaxLen, MaxLen, MaxLen>> : ls \in 0..MaxLen, lt \in 0..MaxLen}
      \cup {<<a, b, b, a, a>> : a \in 0..MaxLen, b \in 0..MaxLen}

\* objects that follow the schema but for the lengths of their arrays
ListPayloads ==
    {Object(AllKeys, "topic", "", SentenceList(n[1]), ItemList("t", n[2]),
            ItemList("w", n[3]), ItemList("m", n[4]), ItemList("x", n[5])) :
        n \in Shapes}

Number == [kind |-> "num", items |-> <<>>]
AsDict(v) == [v EXCEPT !.kind = "dict"]
Aligned == Object(AllKeys, "topic", "", SentenceList(MaxLen), ItemList("t", MaxLen),
                  ItemList("w", MaxLen), ItemList("m", MaxLen), ItemList("x", MaxLen))

\* objects that leave the schema: keys missing, a difficulty_level supplied,
\* a number or an object where an array is expected, a number among the
\* sentences
OddPayloads ==
    { [Aligned EXCEPT !.keys = AllKeys \ {"translations"}],
      [Aligned EXCEPT !.keys = AllKeys \ {"topic", "word_sentences"}],
      [Aligned EXCEPT !.keys = AllKeys \cup {"difficulty_level"},
                      !.difficulty_level = "B1"],
      [Aligned EXCEPT !.keys = AllKeys \cup {"difficulty_level"},
                      !.difficulty_level = "B1", !.translations = ItemList("t", 1)],
      [Aligned EXCEPT !.words = Number],
      [Aligned EXCEPT !.words = Number, !.word_meanings = NoList],
      [Aligned EXCEPT !.translations = Number],
      [Aligned EXCEPT !.words = AsDict(@)],
      [Aligned EXCEPT !.words = AsDict(@), !.word_meanings = ItemList("m", 1)],
      [Aligned EXCEPT !.word_meanings = AsDict(@), !.word_sentences = NoList,
                      !.translations = ItemList("t", 1)],
      [Aligned EXCEPT !.sentences = AsDict(@)],
      [Aligned EXCEPT !.translations = AsDict(@), !.sentences = SentenceList(1)],
      [Aligned EXCEPT !.sentences = List(<<SentenceAt(1), [kind |-> "num", chars |-> <<>>]>>)],
      [Aligned EXCEPT !.sentences = List(<<SentenceAt(1), [kind |-> "num", chars |-> <<>>]>>),
                      !.words = ItemList("w", 1)],
      [Aligned EXCEPT !.sentences = List(<<SentenceAt(1), [kind |-> "num", chars |-> <<>>]>>),
                      !.translations = ItemList("t", 1)] }

ObjectText == <<"{", "m", "}">>

\* the object in a json fence, as the prompt's answers usually come
FencedText == FenceJson \o <<"\n">> \o ObjectText \o <<"\n">> \o Fence

\* the object between two words of prose
ProseText == <<"x", " ">> \o ObjectText \o <<" ", "x">>

\* responses whose candidate does not decode to the members: prose only, an
\* opening fence that is never closed, an empty object, a bare value, two
\* objects, a closing brace before the opening one
OtherTexts ==
    { <<"x">>, FenceJson \o ObjectText, <<"{", "}">>, <<"v">>,
      ObjectText \o <<"x">> \o ObjectText, <<"}", "x", "{">>,
      <<"{">> \o FencedText \o <<"}">> }

Responses ==
    {[raw |-> FencedText, members |-> p] : p \in ListPayloads \cup OddPayloads}
      \cup {[raw |-> ProseText, members |-> p] : p \in OddPayloads}
      \cup {[raw |-> t, members |-> Aligned] : t \in OtherTexts}

\* the outcome of a run that never reaches the try block
NoOutcome ==
    [raised |-> TRUE, json_str |-> <<>>, data |-> <<>>, messages |-> <<>>,
     record |-> NoRecord]

\* what the two collaborators do in a run: loader.load() raises, returns no
\* document or returns one; chain.run raises or returns a response, on which
\* the try block then runs
Collaborators ==
    {[fetch |-> f, completion |-> "", raw |-> <<>>, out |-> NoOutcome] :
        f \in {"raises", "empty"}}
      \cup {[fetch |-> "ok", completion |-> "raises", raw |-> <<>>, out |-> NoOutcome]}
      \cup {[fetch |-> "ok", completion |-> "ok", raw |-> r.raw,
             out |-> TryBlock(r.raw, r.members)] : r \in Responses}

Urls == {"", "https://a.example/1", "https://b.example/2"}

---------------------------------------------------------------------------
(* The session *)

Init ==
    /\ analysis_data = <<>>
    /\ current_url = ""
    /\ url_input = ""
    /\ result = <<>>
    /\ json_str = <<>>
    /\ data = <<>>
    /\ messages = <<>>
    /\ run = "none"
    /\ exception = ""
    /\ sentences = NoList
    /\ difficulty_level = ""

\* a click on the analysis button with url_input in the text field, 227-336
AnalyzeButton ==
    \E url \in Urls :
        /\ url_input' = url
        /\ UNCHANGED <<sentences, difficulty_level>>
        /\ \/ /\ url = ""
              /\ messages' = <<Msg("warning", "url", <<>>)>>
              /\ run' = "no_url"
              /\ exception' = ""
              /\ result' = <<>> /\ json_str' = <<>> /\ data' = <<>>
              /\ UNCHANGED <<analysis_data, current_url>>
           \/ /\ url # ""
              /\ \E ext \in Collaborators :
                    IF ext.fetch # "ok" \/ ext.completion # "ok"
                    THEN \* lines 232-269 stand outside the try statement
                         /\ exception' = (IF ext.fetch = "raises" THEN "FetchError"
                                          ELSE IF ext.fetch = "empty" THEN "IndexError"
                                          ELSE "ServiceError")
                         /\ run' = "unhandled"
                         /\ messages' = <<>>
                         /\ result' = <<>> /\ json_str' = <<>> /\ data' = <<>>
                         /\ UNCHANGED <<analysis_data, current_url>>
                    ELSE /\ result' = ext.raw
                         /\ json_str' = ext.out.json_str
                         /\ data' = ext.out.data
                         /\ messages' = ext.out.messages
                         /\ run' = (IF ext.out.raised THEN "failed" ELSE "stored")
                         /\ exception' = ""
                         /\ analysis_data' = StoredData(analysis_data, ext.out)
                         /\ current_url' = StoredUrl(current_url, url, ext.out)

\* a click on the reset button, shown only while a record is stored, 339-415
ResetButton ==
    /\ analysis_data # <<>>
    /\ analysis_data' = <<>>
    /\ current_url' = ""
    /\ messages' = <<>>
    /\ run' = "reset"
    /\ exception' = ""
    /\ result' = <<>> /\ json_str' = <<>> /\ data' = <<>>
    /\ UNCHANGED <<url_input, sentences, difficulty_level>>

Next == AnalyzeButton \/ ResetButton

Spec == Init /\ [][Next]_vars

---------------------------------------------------------------------------
(* Properties of the session *)

Stored == analysis_data[1]
Decoded == data[1]

Shown(fn, about) == {i \in 1..Len(messages) : messages[i].fn = fn /\ messages[i].about = about}

\* an st.error call of the last run
ErrorShown == \E i \in 1..Len(messages) : messages[i].fn = "error"

Size(v) == Len(v.items)

\* C1: a stored record has as many translations as sentences and as many
\* meanings and example sentences as words.
C1_AlignedRecord ==
    analysis_data # <<>> =>
        /\ Size(Stored.sentences) = Size(Stored.translations)
        /\ Size(Stored.words) = Size(Stored.word_meanings)
        /\ Size(Stored.words) = Size(Stored.word_sentences)

\* a record stored after both groups were cut, with elements left in each
C1_Witness ==
    /\ run = "stored"
    /\ Shown("warning", "words") # {}
    /\ Shown("warning", "sentences") # {}
    /\ Size(Stored.words) >= 1
    /\ Size(Stored.sentences) >= 1

\* C2: a run that ends in an error message leaves the stored record as it was.
C2_FailureKeepsRecord ==
    [][ErrorShown' => analysis_data' = analysis_data]_vars

\* a run that failed after decoding and warning, with a record still stored
C2_Witness ==
    /\ run = "failed"
    /\ ErrorShown
    /\ data # <<>>
    /\ Shown("warning", "words") # {}
    /\ analysis_data # <<>>

\* C3: no exception leaves the analysis action uncaught, a failure of the
\* fetch or of the completion call included.
C3_AllErrorsCaught == exception = ""

\* C4: what is stored of each array is the first min-length elements of the
\* array of the payload, in order, and the array itself when its group agrees.
C4_PrefixTruncation ==
    run = "stored" =>
        LET s == GetField(Decoded, "sentences")
            t == GetField(Decoded, "translations")
            w == GetField(Decoded, "words")
            m == GetField(Decoded, "word_meanings")
            x == GetField(Decoded, "word_sentences")
            min_sentence_len == Min({Size(s), Size(t)})
            min_vocab_len == Min({Size(w), Size(m), Size(x)})
        IN  /\ Stored.sentences.items = SubSeq(s.items, 1, min_sentence_len)
            /\ Stored.translations.items = SubSeq(t.items, 1, min_sentence_len)
            /\ Stored.words.items = SubSeq(w.items, 1, min_vocab_len)
            /\ Stored.word_meanings.items = SubSeq(m.items, 1, min_vocab_len)
            /\ Stored.word_sentences.items = SubSeq(x.items, 1, min_vocab_len)
            /\ Size(s) = Size(t) => (Stored.sentences = s /\ Stored.translations = t)
            /\ (Size(w) = Size(m) /\ Size(w) = Size(x)) =>
                  (Stored.words = w /\ Stored.word_meanings = m
                     /\ Stored.word_sentences = x)

\* both groups cut to a non-empty prefix
C4_Witness ==
    /\ run = "stored"
    /\ Size(Stored.word_meanings) >= 1
    /\ Size(Stored.word_meanings) < Size(GetField(Decoded, "word_meanings"))
    /\ Size(Stored.sentences) >= 1
    /\ Size(Stored.sentences) < Size(GetField(Decoded, "sentences"))

\* the last run decoded a JSON object
ObjectDecoded == run \in {"stored", "failed"} /\ data # <<>> /\ Decoded.kind = "object"

\* the five fields of the decoded object are arrays
AllArrays == \A key \in SequenceKeys : GetField(Decoded, key).kind = "list"

\* the five fields of the decoded object have a length
AllSized == \A key \in SequenceKeys : HasLen(GetField(Decoded, key))

VocabularyCounts ==
    <<Size(GetField(Decoded, "words")), Size(GetField(Decoded, "word_meanings")),
      Size(GetField(Decoded, "word_sentences"))>>

SentenceCounts ==
    <<Size(GetField(Decoded, "sentences")), Size(GetField(Decoded, "translations"))>>

Differ(counts) == \E i, j \in 1..Len(counts) : counts[i] # counts[j]

\* the group got exactly one warning, carrying counts, followed at once by
\* the corrected count
WarnedOnce(about, counts) ==
    /\ Cardinality(Shown("warning", about)) = 1
    /\ \A i \in Shown("warning", about) :
          /\ messages[i].counts = counts
          /\ i < Len(messages)
          /\ messages[i + 1] =
                Msg("info", about, <<Min({counts[k] : k \in 1..Len(counts)})>>)

\* no warning and no correction shown for the group
NotWarned(about) == Shown("warning", about) = {} /\ Shown("info", about) = {}

WarningsMatchCounts ==
    /\ IF Differ(VocabularyCounts)
       THEN WarnedOnce("words", VocabularyCounts) ELSE NotWarned("words")
    /\ IF Differ(SentenceCounts)
       THEN WarnedOnce("sentences", SentenceCounts) ELSE NotWarned("sentences")

UntouchedWhenEqual ==
    run = "stored" =>
        /\ ~Differ(VocabularyCounts) =>
              /\ Stored.words = GetField(Decoded, "words")
              /\ Stored.word_meanings = GetField(Decoded, "word_meanings")
              /\ Stored.word_sentences = GetField(Decoded, "word_sentences")
        /\ ~Differ(SentenceCounts) =>
              /\ Stored.sentences = GetField(Decoded, "sentences")
              /\ Stored.translations = GetField(Decoded, "translations")

\* C8 as stated: for a decoded object whose fields have lengths, each group is
\* warned about exactly when its lengths differ, with the original and the
\* corrected counts; the run is not aborted (a record is stored); and equal
\* lengths mean no truncation and no warning.
C8_AsStated ==
    (ObjectDecoded /\ AllSized) =>
        /\ WarningsMatchCounts
        /\ run = "stored"
        /\ UntouchedWhenEqual

\* the sentences kept by the validation are all strings
KeptSentencesAreStrings ==
    LET s == GetField(Decoded, "sentences").items
        n == Min({SentenceCounts[1], SentenceCounts[2]})
    IN  \A i \in 1..n : s[i].kind = "str"

\* C8 amended: for a decoded object whose five fields are arrays (a missing
\* key being the empty array), each group is warned about exactly when its
\* lengths differ, with the original and the corrected counts, and equal
\* lengths mean no truncation and no warning; the warnings do not abort the
\* run, and a record is stored unless a kept sentence is no string, in which
\* case the scorer raises and the run ends in an error without a record.
C8_WarningsOnArrays ==
    (ObjectDecoded /\ AllArrays) =>
        /\ WarningsMatchCounts
        /\ UntouchedWhenEqual
        /\ IF KeptSentencesAreStrings
           THEN run = "stored" /\ ~ErrorShown
           ELSE run = "failed" /\ ErrorShown

\* a record stored after a warning about the vocabulary alone, the meanings
\* being the shortest array and not empty
C8_Witness ==
    /\ ObjectDecoded /\ AllArrays
    /\ run = "stored"
    /\ Shown("warning", "sentences") = {}
    /\ \E i \in Shown("warning", "words") :
          /\ messages[i].counts[2] >= 1
          /\ messages[i].counts[2] < messages[i].counts[1]
          /\ messages[i].counts[2] < messages[i].counts[3]

\* C9: the difficulty of a stored record is calculate_difficulty of the
\* sentences the record holds, whatever the payload said.
C9_DerivedDifficulty ==
    analysis_data # <<>> =>
        /\ Stored.difficulty_level \in Levels
        /\ Stored.difficulty_level = calculate_difficulty(Stored.sentences)

\* a payload that supplied another level and whose untruncated sentences
\* score another level too
C9_Witness ==
    /\ run = "stored"
    /\ "difficulty_level" \in Decoded.keys
    /\ Decoded.difficulty_level # Stored.difficulty_level
    /\ Size(Stored.sentences) >= 1
    /\ calculate_difficulty(GetField(Decoded, "sentences")) \in
          Levels \ {Stored.difficulty_level, Decoded.difficulty_level}

\* C10: the record is absent exactly when the session URL is empty; a stored
\* run sets both, the URL to the non-empty one submitted; a reset clears
\* both; a failed run or an empty submission changes neither.
C10_RecordAndUrlTogether ==
    /\ [](analysis_data = <<>> <=> current_url = "")
    /\ [][/\ run' = "stored" =>
               (analysis_data' # <<>> /\ current_url' = url_input' /\ url_input' # "")
          /\ run' = "reset" => (analysis_data' = <<>> /\ current_url' = "")
          /\ run' \in {"failed", "unhandled", "no_url"} =>
               UNCHANGED <<analysis_data, current_url>>]_vars

\* a failed run for another URL that left the earlier record and its URL
C10_Witness ==
    /\ run = "failed"
    /\ analysis_data # <<>>
    /\ url_input # ""
    /\ current_url # ""
    /\ current_url # url_input

---------------------------------------------------------------------------
(* Properties of the extraction *)

\* 1-based positions at which sub occurs in s
Occurrences(s, sub) ==
    {i \in 1..(Len(s) - Len(sub) + 1) : SubSeq(s, i, i + Len(sub) - 1) = sub}

\* t is s without its leading and trailing whitespace
IsTrimOf(t, s) ==
    /\ \E a, b \in 0..Len(s) :
          /\ a + b <= Len(s)
          /\ t = SubSeq(s, a + 1, Len(s) - b)
          /\ \A i \in 1..a : s[i] \in Whitespace
          /\ \A i \in (Len(s) - b + 1)..Len(s) : s[i] \in Whitespace
    /\ t # <<>> => (t[1] \notin Whitespace /\ t[Len(t)] \notin Whitespace)

\* first position after the first json-tagged opening marker (1-based)
AfterOpen(s) == Min(Occurrences(s, FenceJson)) + FenceJsonLen

\* positions of the closing markers that follow the opening marker
Closers(s) == {i \in Occurrences(s, Fence) : i >= AfterOpen(s)}

\* C5: when the raw response holds a json-tagged opening fence, the candidate
\* is the whitespace-trimmed text between that marker and the next closing
\* fence after it, whatever braces occur elsewhere; and the extraction yields
\* a string (it does not throw) also when no closing fence follows.
C5_FencedExtraction ==
    (run = "extracted" /\ Occurrences(result, FenceJson) # {}) =>
        /\ json_str \in Seq({result[i] : i \in 1..Len(result)})
        /\ Closers(result) # {} =>
              IsTrimOf(json_str,
                       SubSeq(result, AfterOpen(result), Min(Closers(result)) - 1))

\* a fenced block with text in it and a brace on each side of the block
C5_Witness ==
    /\ run = "extracted"
    /\ Occurrences(result, FenceJson) # {}
    /\ Closers(result) # {}
    /\ \E i \in Occurrences(result, <<"{">>) : i < Min(Occurrences(result, FenceJson))
    /\ \E i \in Occurrences(result, <<"}">>) : i > Min(Closers(result))
    /\ json_str = <<"x">>

FirstOpenBrace(s) == Min(Occurrences(s, <<"{">>))
LastCloseBrace(s) == Max(Occurrences(s, <<"}">>))

NoFenceBothBraces ==
    /\ run = "extracted"
    /\ Occurrences(result, FenceJson) = {}
    /\ Occurrences(result, <<"{">>) # {}
    /\ Occurrences(result, <<"}">>) # {}

NoFenceNoSpan ==
    /\ run = "extracted"
    /\ Occurrences(result, FenceJson) = {}
    /\ (Occurrences(result, <<"{">>) = {} \/ Occurrences(result, <<"}">>) = {})

\* json_str is the text from the first opening brace to the last closing
\* brace of result, both included
IsBraceSpan ==
    /\ Len(json_str) = LastCloseBrace(result) - FirstOpenBrace(result) + 1
    /\ Len(json_str) >= 2
    /\ json_str[1] = "{"
    /\ json_str[Len(json_str)] = "}"
    /\ json_str = SubSeq(result, FirstOpenBrace(result), LastCloseBrace(result))

\* C6 as stated: without a json fence, a response holding both braces yields
\* the span from the first opening to the last closing brace inclusive, for
\* any relative position of the two; a response lacking one is returned as is.
C6_AnyPosition ==
    /\ NoFenceBothBraces => IsBraceSpan
    /\ NoFenceNoSpan => json_str = result

\* C6 amended: the inclusive greedy span when the first opening brace precedes
\* the last closing brace, the empty string when every closing brace precedes
\* the first opening brace, and the raw text when a brace kind is missing.
C6_BraceSpan ==
    /\ (NoFenceBothBraces /\ FirstOpenBrace(result) < LastCloseBrace(result))
          => IsBraceSpan
    /\ (NoFenceBothBraces /\ LastCloseBrace(result) < FirstOpenBrace(result))
          => json_str = <<>>
    /\ NoFenceNoSpan => json_str = result

\* prose, an object, and a second object after it: the greedy span runs from
\* the first opening brace over the inner closing brace to the last one
C6_Witness ==
    /\ NoFenceBothBraces
    /\ result[1] = "x"
    /\ \E i \in Occurrences(result, <<"}">>), j \in Occurrences(result, <<"{">>) :
          FirstOpenBrace(result) < i /\ i < j /\ j < LastCloseBrace(result)
    /\ Len(json_str) = LastCloseBrace(result) - FirstOpenBrace(result) + 1

---------------------------------------------------------------------------
(* Properties of the scorer *)

\* positions at which a whitespace-delimited token of s starts
TokenStarts(s) ==
    {i \in 1..Len(s) : s[i] \notin Whitespace /\ (i = 1 \/ s[i - 1] \in Whitespace)}

\* those of the tokens that are longer than 7 characters
LongTokenStarts(s) ==
    {i \in TokenStarts(s) :
        i + 7 <= Len(s) /\ \A j \in i..(i + 7) : s[j] \notin Whitespace}

RECURSIVE TokensIn(_, _)
TokensIn(items, n) ==
    IF n = 0 THEN 0
    ELSE TokensIn(items, n - 1) + Cardinality(TokenStarts(items[n].chars))

RECURSIVE LongTokensIn(_, _)
LongTokensIn(items, n) ==
    IF n = 0 THEN 0
    ELSE LongTokensIn(items, n - 1) + Cardinality(LongTokenStarts(items[n].chars))

TotalTokens(sents) == TokensIn(sents.items, Len(sents.items))

LongTokens(sents) == LongTokensIn(sents.items, Len(sents.items))

\* avg < bound and ratio < percent / 100, over the integers
InBand(sents, bound, percent) ==
    /\ TotalTokens(sents) < bound * Len(sents.items)
    /\ 100 * LongTokens(sents) < percent * TotalTokens(sents)

ExpectedLevel(sents) ==
    IF Len(sents.items) = 0 \/ TotalTokens(sents) = 0 THEN "A1"
    ELSE IF InBand(sents, 10, 10) THEN "A1"
    ELSE IF InBand(sents, 15, 15) THEN "A2"
    ELSE IF InBand(sents, 20, 20) THEN "B1"
    ELSE IF InBand(sents, 25, 25) THEN "B2"
    ELSE IF InBand(sents, 30, 30) THEN "C1"
    ELSE "C2"

\* C7: calculate_difficulty returns one of the six levels: A1 for no sentence
\* or no token, otherwise the first band whose bounds on the average sentence
\* length and on the ratio of tokens longer than 7 characters both hold, and
\* C2 when none does.
C7_Bands ==
    run = "scored" =>
        /\ difficulty_level \in Levels
        /\ difficulty_level = ExpectedLevel(sentences)

\* average 22 and ratio below 0.25 but not below 0.20: B2 through both bounds
C7_Witness ==
    /\ run = "scored"
    /\ difficulty_level = "B2"
    /\ TotalTokens(sentences) >= 20 * Len(sentences.items)
    /\ 100 * LongTokens(sentences) >= 20 * TotalTokens(sentences)

=============================================================================
